---- MODULE Spec2Model ----
(***************************************************************************)
(* Model of mqlog.MqttHandler (src/mqlog/__init__.py): a logging handler   *)
(* that buffers formatted records and publishes them, newline-joined, to   *)
(* an MQTT topic from one asyncio task (run).                              *)
(*                                                                         *)
(* emit is synchronous; run suspends at will_flush.wait() and at           *)
(* client.publish(...).  Each action below is the code executed between    *)
(* two suspension points of the single-threaded event loop.                *)
(***************************************************************************)
EXTENDS Integers, Sequences, FiniteSets, TLC

(* ---------------------------------------------------------------- bounds *)
\* Total number of emit calls explored.
MaxEmits == 4
\* Largest capacity argument explored (capacity ranges over 1..MaxCapacity).
MaxCapacity == 3

(* ------------------------------------------------- logging level numbers *)
NOTSET == 0
INFO == 20
WARNING == 30
ERROR == 40

\* Severities of the records handed to emit.
RecordLevels == {INFO, WARNING, ERROR}
\* Constructor arguments explored.
LevelArgs == {NOTSET, ERROR}
FlushLevelArgs == {WARNING, ERROR}

VARIABLES
    status,       \* "ok" after __init__ returned, "ValueError" if it raised
    level,        \* Handler.level (super().__init__(level=level))
    flush_level,  \* self.flush_level
    capacity,     \* self.capacity
    buffer,       \* self.buffer: list of formatted lines
    will_flush,   \* self.will_flush: asyncio.Event, TRUE = set
    pc,           \* position of the run() task: "wait" | "publish" | "cancelled"
    up,           \* the client's connection state (FakeClient.up)
    calls,        \* the client's record of publish calls, oldest first
    errors,       \* number of self._logger.error(...) calls
    emitted,      \* every record emit formatted and buffered, in order, with its line
    raised,       \* number of emit calls that raised to their caller
    closed        \* TRUE once close() (inherited from logging.Handler) was called

vars == <<status, level, flush_level, capacity, buffer, will_flush, pc, up,
          calls, errors, emitted, raised, closed>>

(* --------------------------------------------------------------- helpers *)
\* logging.getLevelName for the levels used.
LevelName(levelno) ==
    CASE levelno = INFO -> "INFO"
      [] levelno = WARNING -> "WARNING"
      [] levelno = ERROR -> "ERROR"
      [] OTHER -> "Level " \o ToString(levelno)

\* The n-th record logged: logger "test", message "m<n>".
Record(n, levelno) == [levelno |-> levelno, name |-> "test", msg |-> "m" \o ToString(n)]

\* MqttHandler.format with no formatter set: _default_formatter, whose format
\* string is logging._default_fmt = "%(levelname)s:%(name)s:%(message)s".
Format(record) == LevelName(record.levelno) \o ":" \o record.name \o ":" \o record.msg

\* Mutant of Join: the lines are joined newest first.
RECURSIVE JoinReversed(_, _)
JoinReversed(sep, lines) ==
    IF Len(lines) = 0 THEN ""
    ELSE IF Len(lines) = 1 THEN lines[1]
    ELSE lines[Len(lines)] \o sep \o JoinReversed(sep, SubSeq(lines, 1, Len(lines) - 1))

\* sep.join(lines) for a non-empty list, left to right as str.join does.
RECURSIVE Join(_, _)
Join(sep, lines) ==
    IF Len(lines) = 0 THEN ""
    ELSE IF Len(lines) = 1 THEN lines[1]
    ELSE lines[1] \o sep \o Join(sep, Tail(lines))

\* Mutant of ShouldFlush: the buffer must exceed capacity (> for >=).
ShouldFlushStrictLen(buf, record) ==
    (Len(buf) > capacity) \/ (record.levelno >= flush_level)

\* Mutant of ShouldFlush: the severity must exceed flush_level (> for >=).
ShouldFlushStrictLevel(buf, record) ==
    (Len(buf) >= capacity) \/ (record.levelno > flush_level)

\* Mutant of ShouldFlush: flushes one line early (off by one on the length).
ShouldFlushEarly(buf, record) ==
    (Len(buf) + 1 >= capacity) \/ (record.levelno >= flush_level)

\* MqttHandler._should_flush, evaluated on the buffer after the append.
ShouldFlush(buf, record) ==
    (Len(buf) >= capacity) \/ (record.levelno >= flush_level)

\* Mutant of Init: the constructor does not compare flush_level with level.
InitNoCheck ==
    /\ level \in LevelArgs
    /\ flush_level \in FlushLevelArgs
    /\ capacity \in 1..MaxCapacity
    /\ status = "ok"
    /\ buffer = <<>>
    /\ will_flush = FALSE
    /\ pc = "wait"
    /\ up \in BOOLEAN
    /\ calls = <<>>
    /\ errors = 0
    /\ emitted = <<>>
    /\ raised = 0
    /\ closed = FALSE

(* ------------------------------------------------------------------ Init *)
\* MqttHandler.__init__: raises ValueError when flush_level < level, else the
\* handler starts with an empty buffer and a clear event.  The run() task is
\* scheduled and suspended at will_flush.wait().
Init ==
    /\ level \in LevelArgs
    /\ flush_level \in FlushLevelArgs
    /\ capacity \in 1..MaxCapacity
    /\ status = IF flush_level < level THEN "ValueError" ELSE "ok"
    /\ buffer = <<>>
    /\ will_flush = FALSE
    /\ pc = "wait"
    /\ up \in BOOLEAN
    /\ calls = <<>>
    /\ errors = 0
    /\ emitted = <<>>
    /\ raised = 0
    /\ closed = FALSE

(* --------------------------------------------------------------- actions *)
\* Mutant of Emit: the event is assigned the flush condition, so an emit that
\* does not meet it clears an event that was set.
EmitOverwrite(levelno) ==
    /\ status = "ok"
    /\ Len(emitted) < MaxEmits
    /\ LET record == Record(Len(emitted) + 1, levelno)
           line == Format(record)
       IN /\ buffer' = Append(buffer, line)
          /\ will_flush' = ShouldFlush(buffer', record)
          /\ emitted' = Append(emitted, [levelno |-> levelno, line |-> line])
    /\ UNCHANGED <<raised, closed, status, level, flush_level, capacity, pc, up, calls, errors>>

\* Mutant of Emit: a full buffer drops its oldest line before the append.
EmitEvict(levelno) ==
    /\ status = "ok"
    /\ Len(emitted) < MaxEmits
    /\ LET record == Record(Len(emitted) + 1, levelno)
           line == Format(record)
           kept == IF Len(buffer) >= capacity THEN Tail(buffer) ELSE buffer
       IN /\ buffer' = Append(kept, line)
          /\ will_flush' = (will_flush \/ ShouldFlush(buffer', record))
          /\ emitted' = Append(emitted, [levelno |-> levelno, line |-> line])
    /\ UNCHANGED <<raised, closed, status, level, flush_level, capacity, pc, up, calls, errors>>

\* MqttHandler.emit(record): append the formatted line, then set the event
\* if _should_flush.  Never clears the event, never touches the client.
Emit(levelno) ==
    /\ status = "ok"
    /\ Len(emitted) < MaxEmits
    /\ LET record == Record(Len(emitted) + 1, levelno)
           line == Format(record)
       IN /\ buffer' = Append(buffer, line)
          /\ will_flush' = (will_flush \/ ShouldFlush(buffer', record))
          /\ emitted' = Append(emitted, [levelno |-> levelno, line |-> line])
    /\ UNCHANGED <<raised, closed, status, level, flush_level, capacity, pc, up, calls, errors>>

\* run(): will_flush.wait() returns, _flush() runs up to the await of
\* client.publish(topic, msg, qos).  With an empty buffer _flush does nothing
\* (not even clear the event) and run() loops.
FlushStart ==
    /\ status = "ok"
    /\ pc = "wait"
    /\ will_flush
    /\ IF buffer # <<>>
       THEN /\ calls' = Append(calls, [msg |-> Join("\n", buffer),
                                       batch |-> buffer,
                                       outcome |-> "pending"])
            /\ pc' = "publish"
       ELSE UNCHANGED <<calls, pc>>
    /\ UNCHANGED <<raised, closed, status, level, flush_level, capacity, buffer, will_flush,
                   up, errors, emitted>>

\* Mutant of PublishOk: only the published lines are removed from the buffer.
PublishOkKeepNew ==
    /\ pc = "publish"
    /\ up
    /\ calls' = [calls EXCEPT ![Len(calls)].outcome = "ok"]
    /\ buffer' = SubSeq(buffer, Len(calls[Len(calls)].batch) + 1, Len(buffer))
    /\ will_flush' = FALSE
    /\ pc' = "wait"
    /\ UNCHANGED <<raised, closed, status, level, flush_level, capacity, up, errors, emitted>>

\* Mutant of PublishOk: self.buffer.clear() is missing.
PublishOkNoClear ==
    /\ pc = "publish"
    /\ up
    /\ calls' = [calls EXCEPT ![Len(calls)].outcome = "ok"]
    /\ will_flush' = FALSE
    /\ pc' = "wait"
    /\ UNCHANGED <<raised, closed, status, level, flush_level, capacity, buffer, up, errors, emitted>>

\* Mutant of PublishOk: self.will_flush.clear() is not reached after a success.
PublishOkKeepTrigger ==
    /\ pc = "publish"
    /\ up
    /\ calls' = [calls EXCEPT ![Len(calls)].outcome = "ok"]
    /\ buffer' = <<>>
    /\ pc' = "wait"
    /\ UNCHANGED <<raised, closed, status, level, flush_level, capacity, will_flush,
                   up, errors, emitted>>

\* The awaited publish returns normally: self.buffer.clear(), then (after the
\* try) self.will_flush.clear(); run() loops back to will_flush.wait().
PublishOk ==
    /\ pc = "publish"
    /\ up
    /\ calls' = [calls EXCEPT ![Len(calls)].outcome = "ok"]
    /\ buffer' = <<>>
    /\ will_flush' = FALSE
    /\ pc' = "wait"
    /\ UNCHANGED <<raised, closed, status, level, flush_level, capacity, up, errors, emitted>>

\* Mutant of PublishFail: the failed batch is dropped from the buffer.
PublishFailDrop ==
    /\ pc = "publish"
    /\ calls' = [calls EXCEPT ![Len(calls)].outcome = "fail"]
    /\ errors' = errors + 1
    /\ buffer' = <<>>
    /\ will_flush' = FALSE
    /\ pc' = "wait"
    /\ UNCHANGED <<raised, closed, status, level, flush_level, capacity, up, emitted>>

\* Mutant of PublishFail: no except clause, the exception leaves run().
PublishFailRaise ==
    /\ pc = "publish"
    /\ calls' = [calls EXCEPT ![Len(calls)].outcome = "fail"]
    /\ pc' = "raised"
    /\ UNCHANGED <<raised, closed, status, level, flush_level, capacity, buffer, will_flush,
                   up, errors, emitted>>

\* Mutant of PublishFail: the event is left set after a failure.
PublishFailNoClear ==
    /\ pc = "publish"
    /\ calls' = [calls EXCEPT ![Len(calls)].outcome = "fail"]
    /\ errors' = errors + 1
    /\ pc' = "wait"
    /\ UNCHANGED <<raised, closed, status, level, flush_level, capacity, buffer,
                   will_flush, up, emitted>>

\* The awaited publish raises an Exception: the except clause logs it through
\* self._logger, the buffer is left as it is, the event is cleared and run()
\* loops back to will_flush.wait().
PublishFail ==
    /\ pc = "publish"
    /\ calls' = [calls EXCEPT ![Len(calls)].outcome = "fail"]
    /\ errors' = errors + 1
    /\ will_flush' = FALSE
    /\ pc' = "wait"
    /\ UNCHANGED <<raised, closed, status, level, flush_level, capacity, buffer, up, emitted>>

\* The client loses / regains its connection (FakeClient.up clear / set).
ClientDown ==
    /\ status = "ok"
    /\ up
    /\ up' = FALSE
    /\ UNCHANGED <<raised, closed, status, level, flush_level, capacity, buffer, will_flush,
                   pc, calls, errors, emitted>>

ClientUp ==
    /\ status = "ok"
    /\ ~up
    /\ up' = TRUE
    /\ UNCHANGED <<raised, closed, status, level, flush_level, capacity, buffer, will_flush,
                   pc, calls, errors, emitted>>

EmitAny == \E levelno \in RecordLevels : Emit(levelno)

\* emit(record) for a record whose formatting raises (for example a message
\* whose arguments do not match its format string): self.format(record) raises
\* inside emit before the append, emit has no try/except, so the exception
\* reaches the caller and neither the buffer nor the event is touched.
EmitFormatError ==
    /\ status = "ok"
    /\ Len(emitted) + raised < MaxEmits
    /\ raised' = raised + 1
    /\ UNCHANGED <<closed, status, level, flush_level, capacity, buffer,
                   will_flush, pc, up, calls, errors, emitted>>

\* close(): MqttHandler defines no stop() or close(); the close() it inherits
\* from logging.Handler knows nothing of the run() task, the buffer or the event.
Close ==
    /\ status = "ok"
    /\ ~closed
    /\ closed' = TRUE
    /\ UNCHANGED <<raised, status, level, flush_level, capacity, buffer,
                   will_flush, pc, up, calls, errors, emitted>>

\* The run() task is cancelled from outside while suspended at
\* will_flush.wait(): CancelledError is raised there and ends the task.
CancelWaiting ==
    /\ status = "ok"
    /\ pc = "wait"
    /\ pc' = "cancelled"
    /\ UNCHANGED <<raised, closed, status, level, flush_level, capacity, buffer,
                   will_flush, up, calls, errors, emitted>>

\* Mutant of CancelPublishing: CancelledError is caught by the except clause
\* like a publish failure, and the loop goes on.
CancelPublishingCaught ==
    /\ status = "ok"
    /\ pc = "publish"
    /\ calls' = [calls EXCEPT ![Len(calls)].outcome = "cancelled"]
    /\ errors' = errors + 1
    /\ will_flush' = FALSE
    /\ pc' = "wait"
    /\ UNCHANGED <<raised, closed, status, level, flush_level, capacity, buffer,
                   up, emitted>>

\* The run() task is cancelled while suspended in the awaited publish:
\* CancelledError is a BaseException, so "except Exception" does not catch it;
\* neither buffer.clear() nor will_flush.clear() runs and the task ends.
CancelPublishing ==
    /\ status = "ok"
    /\ pc = "publish"
    /\ calls' = [calls EXCEPT ![Len(calls)].outcome = "cancelled"]
    /\ pc' = "cancelled"
    /\ UNCHANGED <<raised, closed, status, level, flush_level, capacity, buffer,
                   will_flush, up, errors, emitted>>

Next ==
    \/ EmitAny
    \/ FlushStart
    \/ PublishOk
    \/ PublishFail
    \/ ClientDown
    \/ ClientUp

Spec == Init /\ [][Next]_vars

\* The event loop resumes a runnable task: the run() task is resumed once the
\* event it waits on is set, and an awaited publish eventually returns or raises.
FairSpec ==
    /\ Spec
    /\ WF_vars(FlushStart)
    /\ WF_vars(PublishOk \/ PublishFail)

\* The handler with records whose formatting raises.
NextFormat == Next \/ EmitFormatError

SpecFormat == Init /\ [][NextFormat]_vars

\* The handler with close() called at any time.
NextClose == Next \/ Close

SpecClose == Init /\ [][NextClose]_vars

\* The handler with the run() task cancelled at either suspension point.
NextCancel == Next \/ CancelWaiting \/ CancelPublishing

SpecCancel == Init /\ [][NextCancel]_vars

(* ------------------------------------------------ vocabulary of the claims *)
InSeq(x, s) == \E i \in 1..Len(s) : s[i] = x

IsPrefix(s, t) == Len(s) <= Len(t) /\ SubSeq(t, 1, Len(s)) = s

\* The formatted lines of the records emitted so far, in emission order.
EmittedLines == [i \in 1..Len(emitted) |-> emitted[i].line]

\* The lines of emitted[a..b], oldest first, with a newline between neighbours.
RECURSIVE EmittedJoin(_, _)
EmittedJoin(a, b) ==
    IF a > b THEN ""
    ELSE IF a = b THEN emitted[a].line
    ELSE EmittedJoin(a, b - 1) \o "\n" \o emitted[b].line

AllBelowThreshold == \A i \in 1..Len(emitted) : emitted[i].levelno < flush_level

NumFailed == Cardinality({i \in 1..Len(calls) : calls[i].outcome = "fail"})

(* ------------------------------------------------------------------ C1 *)
\* C1: no line is lost without being published: every emitted line is still
\* in the buffer or was part of the payload of some publish call (a line
\* appended while a publish is in flight survives that publish).
C1_NoLineLost ==
    \A i \in 1..Len(emitted) :
        \/ InSeq(emitted[i].line, buffer)
        \/ \E c \in 1..Len(calls) : InSeq(emitted[i].line, calls[c].batch)

C3_LoopSurvivesFailure ==
    /\ [](pc \in {"wait", "publish"} /\ errors = NumFailed)
    /\ ((errors > 0 /\ pc = "wait" /\ will_flush) ~> (pc = "publish"))

\* Two failed publishes, then a later emit whose flush succeeded.
C3_Witness ==
    /\ Len(calls) = 3
    /\ calls[1].outcome = "fail"
    /\ calls[2].outcome = "fail"
    /\ calls[3].outcome = "ok"
    /\ Len(calls[3].batch) > Len(calls[2].batch)
    /\ errors = 2
    /\ pc = "wait"

(* ------------------------------------------------------------------ C4 *)
\* C4: from an empty buffer and a clear trigger, capacity records below
\* flush_level set the trigger on the capacity-th emit and not before, and
\* lead to exactly one publish call whose payload is the capacity lines
\* newline-joined in emission order.
C4_CapacityFlush ==
    (status = "ok" /\ AllBelowThreshold) =>
        /\ Len(emitted) < capacity => ~will_flush /\ calls = <<>>
        /\ Len(emitted) = capacity =>
              /\ Len(calls) <= 1
              /\ calls = <<>> => will_flush /\ pc = "wait"
              /\ calls # <<>> => calls[1].msg = EmittedJoin(1, capacity)

\* capacity = 2, two INFO records, one publish of both lines.
C4_Witness ==
    /\ capacity = 2
    /\ Len(emitted) = 2
    /\ AllBelowThreshold
    /\ Len(calls) = 1
    /\ calls[1].msg = "INFO:test:m1\nINFO:test:m2"
    /\ calls[1].outcome = "ok"
    /\ pc = "wait"

(* ------------------------------------------------------------------ C5 *)
\* C5: from an empty buffer and a clear trigger, one record at or above
\* flush_level (and no other record) sets the trigger whatever the capacity,
\* and the loop then publishes exactly once, the payload being that record's
\* formatted line.
C5_LevelFlush ==
    (status = "ok" /\ Len(emitted) = 1 /\ emitted[1].levelno >= flush_level) =>
        /\ Len(calls) <= 1
        /\ calls = <<>> => will_flush /\ pc = "wait"
        /\ calls # <<>> => calls[1].msg = emitted[1].line

\* One ERROR record with capacity 3: published alone.
C5_Witness ==
    /\ capacity = MaxCapacity
    /\ capacity > 1
    /\ Len(emitted) = 1
    /\ emitted[1].levelno = ERROR
    /\ flush_level = ERROR
    /\ Len(calls) = 1
    /\ calls[1].msg = "ERROR:test:m1"
    /\ calls[1].outcome = "ok"

(* ------------------------------------------------------------------ C6 *)
\* C6: while every emitted record is below flush_level and fewer than
\* capacity records have been emitted, the trigger is not set and publish has
\* not been invoked.
C6_NoFlushBelowCapacity ==
    (status = "ok" /\ AllBelowThreshold /\ Len(emitted) < capacity) =>
        /\ ~will_flush
        /\ calls = <<>>
        /\ pc = "wait"
        /\ buffer = EmittedLines

\* capacity - 1 records, all below flush_level, are buffered unflushed.
C6_Witness ==
    /\ status = "ok"
    /\ capacity = MaxCapacity
    /\ Len(emitted) = capacity - 1
    /\ Len(emitted) >= 1
    /\ AllBelowThreshold
    /\ Len(buffer) = capacity - 1
    /\ ~will_flush

(* ------------------------------------------------------------------ C7 *)
\* C7: every emit appends the record's line and then sets the trigger iff
\* len(buffer) >= capacity or the record's severity >= flush_level; otherwise
\* it leaves the trigger as it was (it never clears a set trigger).
C7_EmitSetsTriggerIff ==
    [][Len(emitted') = Len(emitted) + 1 =>
          LET r == emitted'[Len(emitted')]
              cond == (Len(buffer') >= capacity) \/ (r.levelno >= flush_level)
          IN /\ buffer' = Append(buffer, r.line)
             /\ cond => will_flush'
             /\ ~cond => (will_flush' = will_flush)]_vars

\* A record that does not meet the flush condition was emitted after one that
\* did, and the trigger is still set.
C7_Witness ==
    /\ Len(emitted) = 2
    /\ emitted[1].levelno >= flush_level
    /\ emitted[2].levelno < flush_level
    /\ Len(buffer) = 2
    /\ Len(buffer) < capacity
    /\ will_flush
    /\ pc = "wait"

(* ------------------------------------------------------------------ C8 *)
\* C8: when a publish call succeeds, the buffer is empty and the trigger is
\* clear as the loop returns to will_flush.wait(), whatever was emitted while
\* the publish was in flight.
C8_EmptyAndClearAfterSuccess ==
    [][(pc = "publish" /\ pc' = "wait" /\ calls'[Len(calls')].outcome = "ok") =>
          (buffer' = <<>> /\ ~will_flush')]_vars

\* The loop is back at wait() after a successful publish during which another
\* record was emitted.
C8_Witness ==
    /\ pc = "wait"
    /\ Len(calls) = 1
    /\ calls[1].outcome = "ok"
    /\ Len(emitted) > Len(calls[1].batch)
    /\ buffer = <<>>
    /\ ~will_flush

(* ------------------------------------------------------------------ C9 *)
\* C9: successive flushes publish independent messages: no line of a payload
\* whose publish succeeded is contained in the payload of a later call.
C9_IndependentBatches ==
    \A i \in 1..Len(calls) :
        calls[i].outcome = "ok" =>
            \A j \in (i + 1)..Len(calls) :
                \A k \in 1..Len(calls[i].batch) :
                    ~InSeq(calls[i].batch[k], calls[j].batch)

\* capacity = 2 and four INFO records: payloads m1,m2 and then m3,m4.
C9_Witness ==
    /\ capacity = 2
    /\ Len(calls) = 2
    /\ calls[1].outcome = "ok"
    /\ calls[2].outcome = "ok"
    /\ calls[1].msg = "INFO:test:m1\nINFO:test:m2"
    /\ calls[2].msg = "INFO:test:m3\nINFO:test:m4"

(* ----------------------------------------------------------------- C10 *)
\* C10: the buffer always holds the most recently emitted lines in emission
\* order, and every publish payload is the newline-join, oldest first, of all
\* the lines in the buffer when the flush starts (a flush triggered by a
\* high-severity record carries the earlier buffered lines before it).
C10_PayloadIsFifoJoin ==
    /\ [](/\ Len(buffer) <= Len(emitted)
          /\ buffer = SubSeq(EmittedLines, Len(emitted) - Len(buffer) + 1, Len(emitted)))
    /\ [][Len(calls') = Len(calls) + 1 =>
             /\ calls'[Len(calls')].batch = buffer
             /\ calls'[Len(calls')].msg =
                    EmittedJoin(Len(emitted) - Len(buffer) + 1, Len(emitted))]_vars

\* An INFO record, then an ERROR record that triggers the flush of both.
C10_Witness ==
    /\ capacity = MaxCapacity
    /\ flush_level = ERROR
    /\ Len(calls) = 1
    /\ calls[1].msg = "INFO:test:m1\nERROR:test:m2"

(* ----------------------------------------------------------------- C11 *)
\* Position of a buffered line in the emission history (lines are distinct).
EmitIndex(line) == CHOOSE i \in 1..Len(emitted) : emitted[i].line = line

\* Every line of batch s was emitted strictly before every line of batch t.
AllBefore(s, t) ==
    \A a \in 1..Len(s) : \A b \in 1..Len(t) : EmitIndex(s[a]) < EmitIndex(t[b])

NoPublishSucceeded == \A c \in 1..Len(calls) : calls[c].outcome # "ok"

\* C13: while no flush can succeed, once more than capacity records have been
\* emitted the buffer holds exactly the most recent capacity lines.
C13_TruncatedToCapacity ==
    (status = "ok" /\ NoPublishSucceeded /\ Len(emitted) > capacity) =>
        buffer = SubSeq(EmittedLines, Len(emitted) - capacity + 1, Len(emitted))

(* ----------------------------------------------------------------- C14 *)
PublishedOk(i) ==
    \E c \in 1..Len(calls) :
        calls[c].outcome = "ok" /\ InSeq(emitted[i].line, calls[c].batch)

FailedToPublish(i) ==
    \E c \in 1..Len(calls) :
        calls[c].outcome = "fail" /\ InSeq(emitted[i].line, calls[c].batch)

\* C14: a record at or above flush_level whose publish failed is, once the
\* transport is up, eventually published by the running loop (unless the
\* transport goes down again), with no further emit needed.
C14_RecoversAfterReconnect ==
    \A i \in 1..MaxEmits :
        (/\ i <= Len(emitted)
         /\ emitted[i].levelno >= flush_level
         /\ FailedToPublish(i)
         /\ InSeq(emitted[i].line, buffer)
         /\ pc = "wait"
         /\ up)
        ~> (~up \/ (i <= Len(emitted) /\ PublishedOk(i)))

(* ----------------------------------------------------------------- C15 *)
\* C15: emit never raises to its caller (a record whose formatting fails is
\* buffered as a fallback line and emit returns normally).
C15_EmitNeverRaises == raised = 0

(* ----------------------------------------------------------------- C16 *)
\* C16: construction fails exactly when flush_level < level, and a handler
\* whose construction failed never processes a record; a successful
\* construction yields an empty buffer and a clear trigger.
C16_ConstructionCheck ==
    /\ (flush_level < level) <=> (status = "ValueError")
    /\ status \in {"ok", "ValueError"}
    /\ status = "ValueError" =>
          /\ emitted = <<>>
          /\ buffer = <<>>
          /\ calls = <<>>
          /\ ~will_flush
    /\ (status = "ok" /\ emitted = <<>>) => (buffer = <<>> /\ ~will_flush)

\* A construction with flush_level WARNING below level ERROR has failed.
C16_Witness ==
    /\ flush_level = WARNING
    /\ level = ERROR
    /\ status = "ValueError"
    /\ buffer = <<>>

(* ----------------------------------------------------------------- C17 *)
\* C17: once stop()/close has been invoked the flush loop terminates at its
\* next safe point, so no publish call is started after it.
C17_NoPublishAfterClose ==
    [][closed => Len(calls') = Len(calls)]_vars

(* ----------------------------------------------------------------- C18 *)
\* The i-th emit met the flush condition, no flush having happened before it.
MetFlushCondition(i) == emitted[i].levelno >= flush_level \/ i >= capacity

\* C18: the trigger coalesces: when several emits that each met the flush
\* condition all happened before the loop ran, the loop makes exactly one
\* publish call, carrying every line emitted so far, and is left with a clear
\* trigger; and every publish call is started by one pass of the loop through
\* will_flush.wait() with the trigger set.
C18_Coalescing ==
    /\ []((/\ status = "ok"
           /\ Len(emitted) >= 2
           /\ \A i \in 1..Len(emitted) : MetFlushCondition(i)
           /\ calls # <<>>
           /\ calls[1].batch = EmittedLines)
          => (/\ Len(calls) = 1
              /\ calls[1].msg = EmittedJoin(1, Len(emitted))
              /\ pc = "wait" => ~will_flush))
    /\ [][Len(calls') # Len(calls) =>
             /\ Len(calls') = Len(calls) + 1
             /\ pc = "wait"
             /\ will_flush
             /\ pc' = "publish"]_vars

\* Three ERROR records before the loop ran: one publish of the three lines.
C18_Witness ==
    /\ capacity = MaxCapacity
    /\ Len(emitted) = 3
    /\ Len(calls) = 1
    /\ calls[1].msg = "ERROR:test:m1\nERROR:test:m2\nERROR:test:m3"
    /\ calls[1].outcome = "fail"
    /\ pc = "wait"
    /\ ~will_flush

(* ----------------------------------------------------------------- C19 *)
Cancelled ==
    \/ pc = "cancelled"
    \/ \E c \in 1..Len(calls) : calls[c].outcome = "cancelled"

\* C19: after the run() task was cancelled, at wait() or during a publish,
\* the buffer is still the most recently emitted lines in emission order,
\* emit keeps appending to it, and no publish call is started or completed.
C19_CancelSafe ==
    /\ [](Cancelled =>
            /\ pc = "cancelled"
            /\ Len(buffer) <= Len(emitted)
            /\ buffer = SubSeq(EmittedLines, Len(emitted) - Len(buffer) + 1, Len(emitted)))
    /\ [][Cancelled =>
             /\ calls' = calls
             /\ pc' = pc
             /\ Len(emitted') = Len(emitted) + 1 =>
                    buffer' = Append(buffer, emitted'[Len(emitted')].line)
             /\ Len(emitted') = Len(emitted) => buffer' = buffer]_vars

\* Cancelled during a publish; the batch in flight and a later line are still
\* buffered and will never be published.
C19_Witness ==
    /\ pc = "cancelled"
    /\ calls # <<>>
    /\ calls[Len(calls)].outcome = "cancelled"
    /\ Len(buffer) > Len(calls[Len(calls)].batch)
    /\ IsPrefix(calls[Len(calls)].batch, buffer)

(* ----------------------------------------------------------------- C20 *)
\* C20: in every reachable state, also after failed or cancelled publishes, a
\* set trigger implies a non-empty buffer, so a pass of the loop through
\* will_flush.wait() always has something to publish.
C20_TriggerImpliesNonEmpty ==
    will_flush => (status = "ok" /\ buffer # <<>>)

\* The trigger is still set, with lines buffered, after a failure and a cancel.
C20_Witness ==
    /\ errors > 0
    /\ pc = "cancelled"
    /\ calls[Len(calls)].outcome = "cancelled"
    /\ will_flush
    /\ buffer # <<>>

====
